---- MODULE Spec2Model ----
(***************************************************************************)
(* Streaming extraction engine (pipeline_engine.py, DataPipelineEngine)    *)
(* and the job runner that drives it (run_job.py, main).                   *)
(*                                                                         *)
(* Spec       : one invocation of main, followed by one more invocation of *)
(*              the same command against the same storage and source.      *)
(* SpecEngine : one DataPipelineEngine instance whose get_connection_engine*)
(*              is called repeatedly while the environment changes.        *)
(* SpecWriter : write_parquet_stream / write_csv_stream called directly    *)
(*              with a batch sequence the caller supplies.                 *)
(***************************************************************************)
EXTENDS Integers, Sequences, FiniteSets, TLC

\* ------------------------------------------------------------------ bounds
\* Largest result set of the job's query, largest configured chunk size,
\* and the number of get_connection_engine calls a client makes.
MaxRows == 3
MaxChunk == 2
MaxCalls == 3

\* ------------------------------------------------- configuration document
\* self.config as loaded from the YAML document: two connections, each naming
\* the environment variable that holds its password, and two jobs, one of
\* which names a connection the document does not define.
Connections == {"src", "dw"}

PasswordEnvVar(connection_name) ==
    IF connection_name = "src" THEN "SRC_PW" ELSE "DW_PW"

Jobs == {"orders", "ghost"}

JobConnection(job_name) ==
    IF job_name = "orders" THEN "src" ELSE "nope"

\* storage.default_format of the document
DefaultFormat == "parquet"

\* Names a caller may pass to get_connection_engine
ConnectionNames == Connections \cup {"nope"}

EnvVars == {"SRC_PW", "DW_PW"}

\* os.getenv(var): unset (None), set to the empty string, or set to a secret
Unset == "<unset>"
PwValues == {Unset, "", "s3cret"}

\* Environments of a run of main: no job reads the dw connection
ProcessEnvs == {e \in [EnvVars -> PwValues] : e["DW_PW"] = Unset}

\* ------------------------------------------------------------ value shapes
NoHandle == [name |-> "", id |-> 0]

NoFile == [exists |-> FALSE, lines |-> <<>>, groups |-> <<>>,
           schema |-> "", finalized |-> FALSE]

NoMeta == [exists |-> FALSE, rows |-> 0, format |-> ""]

NoDir == [exists |-> FALSE, data |-> NoFile, snapshot |-> FALSE, meta |-> NoMeta]

NoChunk == [rows |-> <<>>, schema |-> ""]

NoWriter == [opened |-> FALSE, closed |-> FALSE, schema |-> ""]

NoStream == [state |-> "none", pos |-> 0, conn |-> "none"]

NoError == [kind |-> "", after |-> 0]

NoResult == [name |-> "", kind |-> "", handle |-> NoHandle]

NoPrev == [exit_status |-> -1, total_rows |-> -1, error |-> NoError,
           yielded |-> <<>>]

\* The header line of a row-text file; rows are the positive row numbers
HeaderLine == 0

\* Column schemas pandas may infer for a chunk of the same query
Schemas == {"int64", "object"}

\* datetime.now().strftime("%Y%m%d_%H%M%S") of the clock readings 1 and 2: two
\* runs started within the same second read the same value
Strftime(t) == IF t = 1 THEN "ts1" ELSE "ts2"

Timestamps == {Strftime(1), Strftime(2)}

VersionIds == {"v1"} \cup Timestamps

\* --------------------------------------------------------------- variables
VARIABLES
    args,           \* parsed command line: job_name, version, format, config
    chunk_size,     \* execution.chunk_size of the configuration
    nrows,          \* number of rows the job's query returns
    env,            \* process environment
    now,            \* the clock reading a run formats into its version id
    fs,             \* storage: version directory -> its contents
    run,            \* 1 for the first invocation, 2 for the repeated one
    prev,           \* what the first invocation left, kept for comparison
    pc,             \* position in main
    engines_cache,  \* DataPipelineEngine.engines_cache
    created,        \* create_engine calls per connection name
    env_reads,      \* os.getenv calls made by get_connection_engine
    calls,          \* get_connection_engine calls made
    last,           \* outcome of the last get_connection_engine call
    db_engine,      \* main's db_engine
    total_rows,     \* main's total_rows (-1 before get_total_rows)
    count_failed,   \* whether the count query raised
    count_conn,     \* the connection get_total_rows opened: none, open, closed
    failed,         \* connection names for which get_connection_engine raised
    stream,         \* the generator returned by stream_data
    pending,        \* batches left in a sequence handed to the writer directly
    yielded,        \* batches the generator has yielded
    chunk,          \* df_chunk: the batch pulled and not yet written
    writer,         \* pq.ParquetWriter of write_parquet_stream
    i,              \* enumerate index of write_csv_stream
    pbar,           \* rows reported to the progress bar
    ret,            \* value returned by the writer: <<>> is None, <<v>> is v
    error,          \* exception that reached main's handler
    exit_status     \* -1 while running, else the process exit status

vars == <<args, chunk_size, nrows, env, now, fs, run, prev, pc, engines_cache,
          created, env_reads, calls, last, failed, db_engine, total_rows,
          count_failed, count_conn, stream, pending, yielded, chunk, writer, i, pbar, ret, error,
          exit_status>>

inputVars == <<args, chunk_size, nrows>>
worldVars == <<env, now, fs, run, prev>>
engineVars == <<engines_cache, created, env_reads, calls, last, failed>>
writeVars == <<stream, pending, yielded, chunk, writer, i, pbar, ret>>

\* ------------------------------------------------------------ pure helpers
RECURSIVE Flatten(_)
Flatten(batches) ==
    IF batches = <<>> THEN <<>>
    ELSE Head(batches) \o Flatten(Tail(batches))

RECURSIVE CountLines(_, _)
CountLines(lines, what) ==
    IF lines = <<>> THEN 0
    ELSE (IF Head(lines) = what THEN 1 ELSE 0) + CountLines(Tail(lines), what)

RECURSIVE DataLines(_)
DataLines(lines) ==
    IF lines = <<>> THEN <<>>
    ELSE (IF Head(lines) = HeaderLine THEN <<>> ELSE <<Head(lines)>>)
         \o DataLines(Tail(lines))

Min(a, b) == IF a < b THEN a ELSE b

\* Rows pos+1 .. pos+k of the result set, in the source's order
RowsFrom(pos, k) == [j \in 1..k |-> pos + j]

\* Rows a data file holds, in file order
FileRows(f) == IF f.lines # <<>> THEN DataLines(f.lines) ELSE Flatten(f.groups)

\* ----------------------------------------------------------- main: set-up
\* version_id, output_fmt, output_dir/output_file of main
version_id ==
    IF args.version # "" THEN args.version
    ELSE Strftime(now)

output_fmt == IF args.format # "" THEN args.format ELSE DefaultFormat

output_dir == fs[version_id]

output_file == fs[version_id].data

ProcessStart ==
    /\ pc = "init"
    /\ engines_cache = [n \in {} |-> NoHandle]
    /\ created = [n \in ConnectionNames |-> 0]
    /\ env_reads = 0
    /\ calls = 0
    /\ last = NoResult
    /\ failed = {}
    /\ db_engine = NoHandle
    /\ total_rows = -1
    /\ count_failed = FALSE
    /\ count_conn = "none"
    /\ stream = NoStream
    /\ pending = <<>>
    /\ yielded = <<>>
    /\ chunk = NoChunk
    /\ writer = NoWriter
    /\ i = 0
    /\ pbar = 0
    /\ ret = <<>>
    /\ error = NoError
    /\ exit_status = -1

Init ==
    /\ args \in [job_name : Jobs \cup {"nojob"}, version : {"", "v1"},
                 format : {"", "parquet", "csv"}, config : BOOLEAN]
    /\ chunk_size \in 1..MaxChunk
    /\ nrows \in 0..MaxRows
    /\ env \in ProcessEnvs
    /\ now = 1
    /\ fs = [v \in VersionIds |-> NoDir]
    /\ run = 1
    /\ prev = NoPrev
    /\ ProcessStart

Exit(status) ==
    /\ pc' = "exited"
    /\ exit_status' = status

\* DataPipelineEngine(args.config): a missing configuration file ends the run
InitEngine ==
    /\ pc = "init"
    /\ IF args.config
       THEN /\ pc' = "job"
            /\ UNCHANGED exit_status
       ELSE Exit(1)
    /\ UNCHANGED <<inputVars, worldVars, engineVars, writeVars, db_engine,
                   total_rows, count_failed, count_conn, error>>

\* engine_lib.config['jobs'].get(args.job_name)
LoadJob ==
    /\ pc = "job"
    /\ IF args.job_name \in Jobs
       THEN /\ pc' = "paths"
            /\ UNCHANGED exit_status
       ELSE Exit(1)
    /\ UNCHANGED <<inputVars, worldVars, engineVars, writeVars, db_engine,
                   total_rows, count_failed, count_conn, error>>

\* Variant: the safety check is skipped
SetupPaths_nocheck ==
    /\ pc = "paths"
    /\ fs' = [fs EXCEPT ![version_id].exists = TRUE]
    /\ pc' = "connect"
    /\ UNCHANGED <<inputVars, env, now, run, prev, engineVars, writeVars,
                   db_engine, total_rows, count_failed, count_conn, error, exit_status>>

\* The safety check on an explicit version, then output_dir.mkdir
SetupPaths ==
    /\ pc = "paths"
    /\ IF output_dir.exists /\ args.version # ""
       THEN /\ Exit(1)
            /\ UNCHANGED fs
       ELSE /\ fs' = [fs EXCEPT ![version_id].exists = TRUE]
            /\ pc' = "connect"
            /\ UNCHANGED exit_status
    /\ UNCHANGED <<inputVars, env, now, run, prev, engineVars, writeVars,
                   db_engine, total_rows, count_failed, count_conn, error>>

\* ------------------------------------------------- get_connection_engine
Falsy(password) == password \in {Unset, ""}

\* The names whose call raised, after a call that ended as outcome says
NoteFailure(names, outcome) ==
    IF outcome.kind = "handle" THEN names ELSE names \cup {outcome.name}

\* Variant: the cache is never consulted
get_connection_engine_nocache(connection_name) ==
    /\ calls' = calls + 1
    /\ IF connection_name \notin Connections
       THEN /\ last' = [name |-> connection_name, kind |-> "ValueError",
                        handle |-> NoHandle]
            /\ UNCHANGED <<engines_cache, created, env_reads>>
       ELSE /\ env_reads' = env_reads + 1
            /\ IF Falsy(env[PasswordEnvVar(connection_name)])
               THEN /\ last' = [name |-> connection_name,
                                kind |-> "PermissionError", handle |-> NoHandle]
                    /\ UNCHANGED <<engines_cache, created>>
               ELSE LET engine == [name |-> connection_name,
                                   id |-> created[connection_name] + 1]
                    IN /\ created' = [created EXCEPT ![connection_name] = @ + 1]
                       /\ engines_cache' =
                              [n \in DOMAIN engines_cache \cup {connection_name} |->
                                  IF n = connection_name THEN engine
                                  ELSE engines_cache[n]]
                       /\ last' = [name |-> connection_name, kind |-> "handle",
                                   handle |-> engine]
    /\ failed' = NoteFailure(failed, last')

\* Variant: the engine is built and cached before the password is checked
get_connection_engine_eager(connection_name) ==
    /\ calls' = calls + 1
    /\ IF connection_name \in DOMAIN engines_cache
       THEN /\ last' = [name |-> connection_name, kind |-> "handle",
                        handle |-> engines_cache[connection_name]]
            /\ UNCHANGED <<engines_cache, created, env_reads>>
       ELSE IF connection_name \notin Connections
       THEN /\ last' = [name |-> connection_name, kind |-> "ValueError",
                        handle |-> NoHandle]
            /\ UNCHANGED <<engines_cache, created, env_reads>>
       ELSE LET engine == [name |-> connection_name,
                           id |-> created[connection_name] + 1]
            IN /\ env_reads' = env_reads + 1
               /\ created' = [created EXCEPT ![connection_name] = @ + 1]
               /\ engines_cache' =
                      [n \in DOMAIN engines_cache \cup {connection_name} |->
                          IF n = connection_name THEN engine
                          ELSE engines_cache[n]]
               /\ last' = IF Falsy(env[PasswordEnvVar(connection_name)])
                          THEN [name |-> connection_name,
                                kind |-> "PermissionError", handle |-> NoHandle]
                          ELSE [name |-> connection_name, kind |-> "handle",
                                handle |-> engine]
    /\ failed' = NoteFailure(failed, last')

\* Variant: a failed credential lookup is remembered in the cache
get_connection_engine_cachefail(connection_name) ==
    /\ calls' = calls + 1
    /\ IF connection_name \in DOMAIN engines_cache
       THEN /\ last' = [name |-> connection_name,
                        kind |-> IF engines_cache[connection_name] = NoHandle
                                 THEN "PermissionError" ELSE "handle",
                        handle |-> engines_cache[connection_name]]
            /\ UNCHANGED <<engines_cache, created, env_reads>>
       ELSE IF connection_name \notin Connections
       THEN /\ last' = [name |-> connection_name, kind |-> "ValueError",
                        handle |-> NoHandle]
            /\ UNCHANGED <<engines_cache, created, env_reads>>
       ELSE /\ env_reads' = env_reads + 1
            /\ IF Falsy(env[PasswordEnvVar(connection_name)])
               THEN /\ last' = [name |-> connection_name,
                                kind |-> "PermissionError", handle |-> NoHandle]
                    /\ engines_cache' =
                           [n \in DOMAIN engines_cache \cup {connection_name} |->
                               IF n = connection_name THEN NoHandle
                               ELSE engines_cache[n]]
                    /\ UNCHANGED created
               ELSE LET engine == [name |-> connection_name,
                                   id |-> created[connection_name] + 1]
                    IN /\ created' = [created EXCEPT ![connection_name] = @ + 1]
                       /\ engines_cache' =
                              [n \in DOMAIN engines_cache \cup {connection_name} |->
                                  IF n = connection_name THEN engine
                                  ELSE engines_cache[n]]
                       /\ last' = [name |-> connection_name, kind |-> "handle",
                                   handle |-> engine]
    /\ failed' = NoteFailure(failed, last')

get_connection_engine(connection_name) ==
    /\ calls' = calls + 1
    /\ IF connection_name \in DOMAIN engines_cache
       THEN /\ last' = [name |-> connection_name, kind |-> "handle",
                        handle |-> engines_cache[connection_name]]
            /\ UNCHANGED <<engines_cache, created, env_reads>>
       ELSE IF connection_name \notin Connections
       THEN /\ last' = [name |-> connection_name, kind |-> "ValueError",
                        handle |-> NoHandle]
            /\ UNCHANGED <<engines_cache, created, env_reads>>
       ELSE /\ env_reads' = env_reads + 1
            /\ IF Falsy(env[PasswordEnvVar(connection_name)])
               THEN /\ last' = [name |-> connection_name,
                                kind |-> "PermissionError", handle |-> NoHandle]
                    /\ UNCHANGED <<engines_cache, created>>
               ELSE LET engine == [name |-> connection_name,
                                   id |-> created[connection_name] + 1]
                    IN /\ created' = [created EXCEPT ![connection_name] = @ + 1]
                       /\ engines_cache' =
                              [n \in DOMAIN engines_cache \cup {connection_name} |->
                                  IF n = connection_name THEN engine
                                  ELSE engines_cache[n]]
                       /\ last' = [name |-> connection_name, kind |-> "handle",
                                   handle |-> engine]
    /\ failed' = NoteFailure(failed, last')

\* ---------------------------------------------------------- main: execution
\* An exception leaves the try block of main; after = batches written so far
Raise(kind) ==
    /\ error' = [kind |-> kind,
                 after |-> Len(yielded) - (IF pc = "write" THEN 1 ELSE 0)]
    /\ pc' = "except"

\* db_engine = engine_lib.get_connection_engine(job_config['connection'])
GetConnection ==
    /\ pc = "connect"
    /\ get_connection_engine(JobConnection(args.job_name))
    /\ IF last'.kind = "handle"
       THEN /\ db_engine' = last'.handle
            /\ pc' = "count"
            /\ UNCHANGED error
       ELSE /\ Raise(last'.kind)
            /\ UNCHANGED db_engine
    /\ UNCHANGED <<inputVars, worldVars, writeVars, total_rows, count_failed, count_conn,
                   exit_status>>

\* get_total_rows: the count query either answers or raises inside the try
get_total_rows(ok) == IF ok THEN nrows ELSE 0

\* with engine.connect() as conn: the connection, once opened, is closed when
\* the block is left, by return or by exception
CountConnAfter(connected) == IF connected THEN "closed" ELSE "none"

\* Variant: a failing count query is not caught
GetTotalRows_propagates ==
    /\ pc = "count"
    /\ \E ok \in BOOLEAN :
          /\ count_failed' = ~ok
          /\ IF ok
             THEN /\ total_rows' = nrows
                  /\ pc' = "stream"
                  /\ UNCHANGED error
             ELSE /\ Raise("CountError")
                  /\ UNCHANGED total_rows
    /\ count_conn' = "closed"
    /\ UNCHANGED <<inputVars, worldVars, engineVars, writeVars, db_engine,
                   exit_status>>

GetTotalRows ==
    /\ pc = "count"
    /\ \E connected \in BOOLEAN, ok \in BOOLEAN :
          /\ connected \/ ~ok
          /\ total_rows' = get_total_rows(ok)
          /\ count_failed' = ~ok
          /\ count_conn' = CountConnAfter(connected)
    /\ pc' = "stream"
    /\ UNCHANGED <<inputVars, worldVars, engineVars, writeVars, db_engine,
                   error, exit_status>>

\* Variant: stream_data connects and runs the query when it is called
StartStream_eager ==
    /\ pc = "stream"
    /\ stream' = [state |-> "created", pos |-> 0, conn |-> "open"]
    /\ writer' = NoWriter
    /\ i' = 0
    /\ pbar' = 0
    /\ pc' = "pull"
    /\ UNCHANGED <<inputVars, worldVars, engineVars, db_engine, total_rows,
                   count_failed, count_conn, pending, yielded, chunk, ret, error,
                   exit_status>>

\* stream = engine_lib.stream_data(...): the generator is created, nothing runs;
\* the writer is entered with no writer object, i = 0 and an empty progress bar
StartStream ==
    /\ pc = "stream"
    /\ stream' = [state |-> "created", pos |-> 0, conn |-> "none"]
    /\ writer' = NoWriter
    /\ i' = 0
    /\ pbar' = 0
    /\ pc' = "pull"
    /\ UNCHANGED <<inputVars, worldVars, engineVars, db_engine, total_rows,
                   count_failed, count_conn, pending, yielded, chunk, ret, error, exit_status>>

\* Variant: every fetch asks for one row fewer than chunk_size allows
NextBatch_short(pos, schema) ==
    [rows |-> RowsFrom(pos, Min(IF chunk_size > 1 THEN chunk_size - 1 ELSE 1,
                                nrows - pos)),
     schema |-> schema]

\* The next batch of the result set: at most chunk_size rows from position pos
NextBatch(pos, schema) ==
    [rows |-> RowsFrom(pos, Min(chunk_size, nrows - pos)), schema |-> schema]

\* for df_chunk in data_stream: resumes the generator of stream_data
Pull ==
    /\ pc = "pull"
    /\ \/ \* a batch is fetched and yielded
          /\ stream.pos < nrows
          /\ \E schema \in Schemas :
                /\ chunk' = NextBatch(stream.pos, schema)
                /\ yielded' = Append(yielded, chunk')
                /\ stream' = [state |-> "running",
                              pos |-> stream.pos + Len(chunk'.rows),
                              conn |-> "open"]
          /\ pc' = "write"
          /\ UNCHANGED error
       \/ \* an empty result set: read_sql yields one frame of no rows
          /\ nrows = 0
          /\ stream.state = "created"
          /\ \E schema \in Schemas :
                /\ chunk' = NextBatch(0, schema)
                /\ yielded' = Append(yielded, chunk')
          /\ stream' = [state |-> "running", pos |-> 0, conn |-> "open"]
          /\ pc' = "write"
          /\ UNCHANGED error
       \/ \* the result set is exhausted: the with block closes the connection
          /\ stream.pos = nrows
          /\ nrows > 0 \/ stream.state = "running"
          /\ stream' = [stream EXCEPT !.state = "exhausted", !.conn = "closed"]
          /\ pc' = "close"
          /\ UNCHANGED <<chunk, yielded, error>>
       \/ \* connecting or fetching raises
          /\ stream' = [stream EXCEPT !.state = "failed",
                                      !.conn = IF @ = "open" THEN "closed" ELSE @]
          /\ Raise("StreamingError")
          /\ UNCHANGED <<chunk, yielded>>
    /\ UNCHANGED <<inputVars, worldVars, engineVars, db_engine, total_rows,
                   count_failed, count_conn, pending, writer, i, pbar, ret, exit_status>>

\* write_csv_stream: mode and header of the to_csv call for index i
mode == IF i > 0 THEN "a" ELSE "w"
header == ~(i > 0)

EmptyParquet(schema) ==
    [exists |-> TRUE, lines |-> <<>>, groups |-> <<>>, schema |-> schema,
     finalized |-> FALSE]

EmptyCsv ==
    [exists |-> TRUE, lines |-> <<>>, groups |-> <<>>, schema |-> "",
     finalized |-> FALSE]

\* df_chunk.to_csv(output_path, mode, header, index=False)
to_csv(file, df_chunk, m, h) ==
    LET base == IF m = "w" \/ ~file.exists THEN EmptyCsv ELSE file
    IN [base EXCEPT !.lines = @ \o (IF h THEN <<HeaderLine>> ELSE <<>>)
                                \o df_chunk.rows]

\* Variant: the row group replaces what the file held
write_table_overwrite(file, df_chunk) ==
    [file EXCEPT !.groups = <<df_chunk.rows>>]

\* writer.write_table(table): one row group is appended
write_table(file, df_chunk) ==
    [file EXCEPT !.groups = Append(@, df_chunk.rows)]

\* Variant: a batch whose schema differs makes the writer open the file anew
WriteParquetBatch_reopen ==
    LET keep == writer.opened /\ writer.schema = chunk.schema
        opened == IF keep THEN writer
                  ELSE [opened |-> TRUE, closed |-> FALSE, schema |-> chunk.schema]
        file == IF keep THEN output_file ELSE EmptyParquet(chunk.schema)
    IN \/ /\ writer' = opened
          /\ fs' = [fs EXCEPT ![version_id].data = write_table(file, chunk)]
          /\ pbar' = pbar + Len(chunk.rows)
          /\ pc' = "pull"
          /\ UNCHANGED error
       \/ /\ ~writer.opened
          /\ Raise("WriteError")
          /\ UNCHANGED <<writer, fs, pbar>>
       \/ /\ writer' = opened
          /\ fs' = [fs EXCEPT ![version_id].data = file]
          /\ Raise("WriteError")
          /\ UNCHANGED pbar

WriteParquetBatch ==
    LET opened == IF writer.opened THEN writer
                  ELSE [opened |-> TRUE, closed |-> FALSE, schema |-> chunk.schema]
        file == IF writer.opened THEN output_file ELSE EmptyParquet(chunk.schema)
    IN \/ /\ writer' = opened
          /\ fs' = [fs EXCEPT ![version_id].data = write_table(file, chunk)]
          /\ pbar' = pbar + Len(chunk.rows)
          /\ pc' = "pull"
          /\ UNCHANGED error
       \/ \* pq.ParquetWriter(...) raises: nothing is opened
          /\ ~writer.opened
          /\ Raise("WriteError")
          /\ UNCHANGED <<writer, fs, pbar>>
       \/ \* write_table raises after the file was opened
          /\ writer' = opened
          /\ fs' = [fs EXCEPT ![version_id].data = file]
          /\ Raise("WriteError")
          /\ UNCHANGED pbar

WriteCsvBatch ==
    \/ /\ fs' = [fs EXCEPT ![version_id].data = to_csv(@, chunk, mode, header)]
       /\ pbar' = pbar + Len(chunk.rows)
       /\ i' = i + 1
       /\ pc' = "pull"
       /\ UNCHANGED error
    \/ \* to_csv raises: a file opened with mode w is left truncated
       /\ fs' = [fs EXCEPT ![version_id].data =
                     IF mode = "w" \/ ~@.exists THEN EmptyCsv ELSE @]
       /\ Raise("WriteError")
       /\ UNCHANGED <<pbar, i>>

\* The body of the writer's loop for the batch just pulled
WriteBatch ==
    /\ pc = "write"
    /\ IF output_fmt = "parquet"
       THEN WriteParquetBatch /\ UNCHANGED i
       ELSE WriteCsvBatch /\ UNCHANGED writer
    /\ UNCHANGED <<inputVars, env, now, run, prev, engineVars, db_engine,
                   total_rows, count_failed, count_conn, stream, pending, yielded, chunk,
                   ret, exit_status>>

\* After the loop: writer.close() if a writer was opened, pbar.close(); the
\* function ends without a return statement
CloseWriter ==
    /\ pc = "close"
    /\ IF output_fmt = "parquet" /\ writer.opened
       THEN /\ writer' = [writer EXCEPT !.closed = TRUE]
            /\ fs' = [fs EXCEPT ![version_id].data.finalized = TRUE]
       ELSE UNCHANGED <<writer, fs>>
    /\ ret' = <<>>
    /\ pc' = "finish"
    /\ UNCHANGED <<inputVars, env, now, run, prev, engineVars, db_engine,
                   total_rows, count_failed, count_conn, stream, pending, yielded, chunk,
                   i, pbar, error, exit_status>>

\* 5. Metadata & Cleanup: snapshot_config.yaml and metadata.json
Finish ==
    /\ pc = "finish"
    /\ fs' = [fs EXCEPT ![version_id].snapshot = TRUE,
                        ![version_id].meta = [exists |-> TRUE,
                                              rows |-> total_rows,
                                              format |-> output_fmt]]
    /\ Exit(0)
    /\ UNCHANGED <<inputVars, env, now, run, prev, engineVars, writeVars,
                   db_engine, total_rows, count_failed, count_conn, error>>

\* Variant: the partial file is left in place
Cleanup_keep(file) == file

\* if output_file.exists(): os.remove(output_file)
Cleanup(file) == IF file.exists THEN NoFile ELSE file

\* A generator left suspended at its yield is closed only if the interpreter
\* finalizes it: the with block of stream_data then closes the connection
Finalized(gen) ==
    IF gen.state = "running"
    THEN [gen EXCEPT !.state = "closed", !.conn = "closed"]
    ELSE gen

\* Variant: the handler also writes the metadata record
HandleFailure_meta ==
    /\ pc = "except"
    /\ fs' = [fs EXCEPT ![version_id].data = Cleanup(@),
                        ![version_id].meta = [exists |-> TRUE, rows |-> pbar,
                                              format |-> output_fmt]]
    /\ Exit(1)
    /\ stream' \in {stream, Finalized(stream)}
    /\ UNCHANGED <<inputVars, env, now, run, prev, engineVars, pending, yielded,
                   chunk, writer, i, pbar, ret, db_engine, total_rows,
                   count_failed, count_conn, error>>

\* Variant: the handler cleans up and starts the extraction over
HandleFailure_retry ==
    /\ pc = "except"
    /\ fs' = [fs EXCEPT ![version_id].data = Cleanup(@)]
    /\ pc' = "connect"
    /\ stream' = NoStream
    /\ yielded' = <<>>
    /\ UNCHANGED <<inputVars, env, now, run, prev, engineVars, pending, chunk,
                   writer, i, pbar, ret, db_engine, total_rows, count_failed,
                   count_conn, error, exit_status>>

\* Variant: the handler removes the whole version directory
HandleFailure_rmtree ==
    /\ pc = "except"
    /\ fs' = [fs EXCEPT ![version_id] = NoDir]
    /\ Exit(1)
    /\ stream' \in {stream, Finalized(stream)}
    /\ UNCHANGED <<inputVars, env, now, run, prev, engineVars, pending, yielded,
                   chunk, writer, i, pbar, ret, db_engine, total_rows,
                   count_failed, count_conn, error>>

\* except Exception: remove the partial data file, sys.exit(1).  main still
\* holds the generator; whether it is finalized as the process exits is left
\* to the interpreter
HandleFailure ==
    /\ pc = "except"
    /\ fs' = [fs EXCEPT ![version_id].data = Cleanup(@)]
    /\ Exit(1)
    /\ stream' \in {stream, Finalized(stream)}
    /\ UNCHANGED <<inputVars, env, now, run, prev, engineVars, pending, yielded,
                   chunk, writer, i, pbar, ret, db_engine, total_rows,
                   count_failed, count_conn, error>>

\* The same command is invoked once more: a new process, a new engine
\* instance, the same storage and source
Rerun ==
    /\ pc = "exited"
    /\ run = 1
    /\ run' = 2
    /\ prev' = [exit_status |-> exit_status, total_rows |-> total_rows,
                error |-> error, yielded |-> yielded]
    /\ now' \in {now, now + 1}
    /\ env' \in ProcessEnvs
    /\ pc' = "init"
    /\ engines_cache' = [n \in {} |-> NoHandle]
    /\ created' = [n \in ConnectionNames |-> 0]
    /\ env_reads' = 0
    /\ calls' = 0
    /\ last' = NoResult
    /\ failed' = {}
    /\ db_engine' = NoHandle
    /\ total_rows' = -1
    /\ count_failed' = FALSE
    /\ count_conn' = "none"
    /\ stream' = NoStream
    /\ pending' = <<>>
    /\ yielded' = <<>>
    /\ chunk' = NoChunk
    /\ writer' = NoWriter
    /\ i' = 0
    /\ pbar' = 0
    /\ ret' = <<>>
    /\ error' = NoError
    /\ exit_status' = -1
    /\ UNCHANGED <<inputVars, fs>>

Next ==
    \/ InitEngine
    \/ LoadJob
    \/ SetupPaths
    \/ GetConnection
    \/ GetTotalRows
    \/ StartStream
    \/ Pull
    \/ WriteBatch
    \/ CloseWriter
    \/ Finish
    \/ HandleFailure
    \/ Rerun

Spec == Init /\ [][Next]_vars

\* ------------------------------------- the engine used by a client directly
\* A long-lived DataPipelineEngine: its owner asks for connections by name
\* while the process environment is edited between the calls
InitClient ==
    /\ args = [job_name |-> "orders", version |-> "v1", format |-> "",
               config |-> TRUE]
    /\ chunk_size = 1
    /\ nrows = 0
    /\ env \in [EnvVars -> PwValues]
    /\ now = 1
    /\ fs = [v \in VersionIds |-> NoDir]
    /\ run = 1
    /\ prev = NoPrev
    /\ ProcessStart

ClientCall ==
    /\ calls < MaxCalls
    /\ \E connection_name \in ConnectionNames :
          get_connection_engine(connection_name)
    /\ UNCHANGED <<inputVars, worldVars, writeVars, pc, db_engine, total_rows,
                   count_failed, count_conn, error, exit_status>>

\* os.environ[var] = value, or del os.environ[var]
SetEnv ==
    /\ \E var \in EnvVars, value \in PwValues :
          /\ env[var] # value
          /\ env' = [env EXCEPT ![var] = value]
    /\ UNCHANGED <<inputVars, now, fs, run, prev, engineVars, writeVars, pc,
                   db_engine, total_rows, count_failed, count_conn, error, exit_status>>

NextEngine == ClientCall \/ SetEnv

SpecEngine == InitClient /\ [][NextEngine]_vars

\* ------------------------------------- the writers used by a client directly
\* Batch j of a result set of n rows cut into chunks of c rows
ChunkRows(n, c, j) == RowsFrom((j - 1) * c, Min(c, n - (j - 1) * c))

CeilDiv(n, c) == (n + c - 1) \div c

\* The batch sequences a caller may hand to a writer: every result set cut
\* into chunks, each chunk with any inferred schema; the empty sequence is
\* the one with no batch at all
GivenSequences ==
    UNION { { [j \in 1..CeilDiv(n, c) |->
                 [rows |-> ChunkRows(n, c, j), schema |-> sch[j]]] :
              sch \in [1..CeilDiv(n, c) -> Schemas] } :
            n \in 0..MaxRows, c \in 1..MaxChunk }

InitWriter ==
    /\ args \in [job_name : {"orders"}, version : {"v1"},
                 format : {"parquet", "csv"}, config : {TRUE}]
    /\ chunk_size = 1
    /\ nrows = 0
    /\ env = [var \in EnvVars |-> Unset]
    /\ now = 1
    /\ fs = [v \in VersionIds |-> IF v = "v1" THEN [NoDir EXCEPT !.exists = TRUE]
                                  ELSE NoDir]
    /\ run = 1
    /\ prev = NoPrev
    /\ pc = "pull"
    /\ engines_cache = [n \in {} |-> NoHandle]
    /\ created = [n \in ConnectionNames |-> 0]
    /\ env_reads = 0
    /\ calls = 0
    /\ last = NoResult
    /\ failed = {}
    /\ db_engine = NoHandle
    /\ total_rows = 0
    /\ count_failed = FALSE
    /\ count_conn = "none"
    /\ stream = NoStream
    /\ pending \in GivenSequences
    /\ yielded = <<>>
    /\ chunk = NoChunk
    /\ writer = NoWriter
    /\ i = 0
    /\ pbar = 0
    /\ ret = <<>>
    /\ error = NoError
    /\ exit_status = -1

\* for df_chunk in data_stream, over a sequence the caller built
PullGiven ==
    /\ pc = "pull"
    /\ IF pending = <<>>
       THEN /\ pc' = "close"
            /\ UNCHANGED <<pending, chunk, yielded>>
       ELSE /\ chunk' = Head(pending)
            /\ pending' = Tail(pending)
            /\ yielded' = Append(yielded, chunk')
            /\ pc' = "write"
    /\ UNCHANGED <<inputVars, worldVars, engineVars, db_engine, total_rows,
                   count_failed, count_conn, stream, writer, i, pbar, ret, error,
                   exit_status>>

NextWriter == PullGiven \/ WriteBatch \/ CloseWriter

SpecWriter == InitWriter /\ [][NextWriter]_vars

\* ================================================================== claims
BatchRows(batches) == [j \in 1..Len(batches) |-> batches[j].rows]

WriterReturned == pc = "finish" \/ (pc = "exited" /\ exit_status = 0)

\* C1: after a run in which neither the stream nor the writer failed, the
\* row counts of the batches written add up to the size of the result set,
\* and the destination holds every yielded batch exactly once, in order.
C1_AllRowsWrittenOnce ==
    WriterReturned =>
        /\ pbar = nrows
        /\ Len(FileRows(output_file)) = nrows
        /\ FileRows(output_file) = Flatten(BatchRows(yielded))
        /\ output_fmt = "parquet" => output_file.groups = BatchRows(yielded)

C1_Witness ==
    /\ pc = "exited"
    /\ exit_status = 0
    /\ nrows = 3
    /\ chunk_size = 2
    /\ Len(yielded) = 2
    /\ FileRows(output_file) = <<1, 2, 3>>

\* C2: a writer that consumed its batch sequence to completion returns the
\* total number of rows written, n for a result set of n rows.
C2_WriterReturnsRowCount ==
    pc = "finish" => ret = <<nrows>>

\* C3: if pulling a batch raised after m >= 0 batches were written, the data
\* file does not exist once the run has completed.
C3_NoFileAfterStreamError ==
    (pc = "exited" /\ error.kind = "StreamingError") => ~output_file.exists

C3_Witness ==
    /\ pc = "exited"
    /\ error.kind = "StreamingError"
    /\ error.after >= 1
    /\ pbar >= 1
    /\ exit_status = 1
    /\ ~output_file.exists

\* C4: for a known connection whose password variable is unset or empty the
\* call fails with the security error, and no handle was built or cached and
\* no connection or query was attempted for it.
C4_NoHandleOnMissingCredential ==
    /\ \A c \in Connections :
          Falsy(env[PasswordEnvVar(c)]) =>
              /\ created[c] = 0
              /\ c \notin DOMAIN engines_cache
    /\ (last.name \in Connections /\ Falsy(env[PasswordEnvVar(last.name)])) =>
          /\ last.kind = "PermissionError"
          /\ db_engine = NoHandle
          /\ total_rows = -1
          /\ stream = NoStream
          /\ pc \in {"except", "exited"} /\ error.kind = "PermissionError"

C4_Witness ==
    /\ pc = "exited"
    /\ exit_status = 1
    /\ error.kind = "PermissionError"
    /\ env["SRC_PW"] = ""
    /\ created["src"] = 0

\* C5: at most one handle is ever built per connection name, and a call for a
\* name already cached returns the cached handle without reading the
\* environment or changing the cache.
C5_CachedHandleReturned ==
    /\ [](\A c \in ConnectionNames : created[c] <= 1)
    /\ [][(calls' = calls + 1 /\ last'.name \in DOMAIN engines_cache) =>
             /\ last'.kind = "handle"
             /\ last'.handle = engines_cache[last'.name]
             /\ engines_cache' = engines_cache
             /\ created' = created
             /\ env_reads' = env_reads]_vars

\* A handle is returned for a name whose password has since been removed
C5_Witness ==
    /\ calls >= 2
    /\ last.kind = "handle"
    /\ Falsy(env[PasswordEnvVar(last.name)])
    /\ created[last.name] = 1

\* C6: a failing count query is not propagated: get_total_rows returns 0, the
\* run goes on to stream and write, and unless the stream or the writer fails
\* it ends successfully with all n rows written.
C6_CountFailureNotFatal ==
    count_failed =>
        /\ total_rows = 0
        /\ pc \in {"stream", "pull", "write", "close", "finish", "except", "exited"}
        /\ error.kind \in {"", "StreamingError", "WriteError"}
        /\ (pc = "exited" /\ error.kind = "") =>
              /\ exit_status = 0
              /\ output_file.exists
              /\ FileRows(output_file) = RowsFrom(0, nrows)

C6_Witness ==
    /\ count_failed
    /\ pc = "exited"
    /\ exit_status = 0
    /\ nrows = 3
    /\ FileRows(output_file) = <<1, 2, 3>>

\* C7: two runs that differ only in the value get_total_rows returned (the
\* true count in one, 0 after a count failure in the other) have the same
\* outcome, the same data file contents and the same row count in their
\* metadata.  The runs compared wrote to two fresh timestamp directories,
\* saw the same batches and the same fault.
C7_CountOnlyForProgress ==
    (/\ run = 2
     /\ pc = "exited"
     /\ args.version = ""
     /\ now = 2
     /\ prev.total_rows >= 0
     /\ total_rows >= 0
     /\ prev.total_rows # total_rows
     /\ prev.yielded = yielded
     /\ prev.error = error) =>
        /\ exit_status = prev.exit_status
        /\ fs[Strftime(1)].data = fs[Strftime(2)].data
        /\ fs[Strftime(1)].meta.exists = fs[Strftime(2)].meta.exists
        /\ fs[Strftime(1)].meta.rows = fs[Strftime(2)].meta.rows

\* C8: with an explicit version whose directory already exists the run aborts
\* with a non-zero status, having requested no connection handle, issued no
\* count or stream query, and created, written or deleted nothing in storage.
C8_ConflictAbortsBeforeWork ==
    [][(pc \in {"init", "job", "paths"} /\ args.version # "" /\ output_dir.exists) =>
          /\ fs' = fs
          /\ calls' = 0
          /\ db_engine' = NoHandle
          /\ total_rows' = -1
          /\ stream' = NoStream
          /\ pc' \in {"job", "paths", "exited"}
          /\ pc' = "exited" => exit_status' = 1
          /\ pc = "paths" => pc' = "exited"]_vars

C8_Witness ==
    /\ run = 2
    /\ pc = "exited"
    /\ exit_status = 1
    /\ args.version = "v1"
    /\ args.config
    /\ args.job_name = "orders"
    /\ output_dir.exists
    /\ calls = 0

\* C9: for every number k of batches consumed by write_csv_stream the
\* resulting row-text output contains exactly one header line.
C9_ExactlyOneHeaderLine ==
    (output_fmt = "csv" /\ pc = "finish") =>
        CountLines(output_file.lines, HeaderLine) = 1

\* C10: given an empty batch sequence both writers complete and leave a
\* destination artifact in place.
C10_EmptySequenceLeavesArtifact ==
    (pc = "finish" /\ yielded = <<>>) => output_file.exists

\* C11 (as stated): for n rows and chunk size c the exhausted stream has
\* yielded exactly ceil(n/c) batches, each of at most c rows and all but the
\* last of exactly c, whose concatenation is the source rows in order.
C11_CeilBatches ==
    stream.state = "exhausted" =>
        /\ Len(yielded) = CeilDiv(nrows, chunk_size)
        /\ \A j \in 1..Len(yielded) :
              /\ Len(yielded[j].rows) <= chunk_size
              /\ j < Len(yielded) => Len(yielded[j].rows) = chunk_size
        /\ Flatten(BatchRows(yielded)) = RowsFrom(0, nrows)

\* C11 (amended): the same, except that an empty result set yields exactly
\* one batch, of no rows; at every moment the batches yielded so far are the
\* first rows of the source, in order.
C11_BatchesCoverSource ==
    /\ \A j \in 1..Len(yielded) : Len(yielded[j].rows) <= chunk_size
    /\ Flatten(BatchRows(yielded)) = RowsFrom(0, stream.pos)
    /\ stream.state = "exhausted" =>
          /\ stream.pos = nrows
          /\ Len(yielded) = IF nrows = 0 THEN 1 ELSE CeilDiv(nrows, chunk_size)
          /\ \A j \in 1..(Len(yielded) - 1) : Len(yielded[j].rows) = chunk_size

C11_Witness ==
    /\ stream.state = "exhausted"
    /\ nrows = 3
    /\ chunk_size = 2
    /\ BatchRows(yielded) = << <<1, 2>>, <<3>> >>

\* C12: when an error raised while pulling or writing reaches main's handler
\* after the columnar writer was opened, that writer has been closed.
C12_WriterClosedBeforeErrorPropagates ==
    (pc = "except" /\ writer.opened) => writer.closed

\* C13: every source connection is released on every exit path: the count
\* connection is never left open, the streaming connection is closed once
\* the sequence is exhausted and, after an error, before the run terminates.
C13_ConnectionsReleased ==
    /\ count_conn # "open"
    /\ pc \in {"close", "finish"} => stream.conn = "closed"
    /\ pc = "exited" => stream.conn # "open"

\* C14: the columnar writer only moves forward: it is opened once, on the
\* first batch and with that batch's schema, the locked schema never changes
\* while batches are appended, and the file is finalized once, only after the
\* sequence is exhausted.
C14_WriterOnlyMovesForward ==
    [][run' = run =>
          /\ writer.opened =>
                /\ writer'.opened
                /\ writer'.schema = writer.schema
          /\ writer.closed =>
                /\ writer' = writer
                /\ fs'[version_id].data = fs[version_id].data
          /\ (~writer.opened /\ writer'.opened) =>
                /\ pc = "write"
                /\ Len(yielded) = 1
                /\ writer'.schema = yielded[1].schema
                /\ fs'[version_id].data.schema = yielded[1].schema
          /\ (~writer.closed /\ writer'.closed) =>
                /\ pc = "close"
                /\ writer.opened
                /\ stream.state = "exhausted"
                /\ fs'[version_id].data.finalized
          /\ (writer'.opened /\ ~writer'.closed) =>
                ~fs'[version_id].data.finalized]_vars

C14_Witness ==
    /\ writer.closed
    /\ output_file.finalized
    /\ Len(yielded) = 3
    /\ yielded[2].schema # writer.schema
    /\ output_file.schema = yielded[1].schema

\* Batches the sink has written so far
BatchesWritten ==
    IF output_fmt = "parquet"
    THEN (IF writer.opened THEN Len(output_file.groups) ELSE 0)
    ELSE i

\* C15: the flow is pull-based: the batches fetched exceed the batches written
\* by at most one, the next batch is fetched only when the previous one is
\* written, and stream_data runs no query before the first batch is requested.
C15_PullBased ==
    /\ pc \in {"pull", "close", "finish"} => Len(yielded) = BatchesWritten
    /\ pc = "write" => Len(yielded) = BatchesWritten + 1
    /\ pc = "except" => Len(yielded) - BatchesWritten \in {0, 1}
    /\ stream.state \in {"none", "created"} =>
          /\ stream.conn = "none"
          /\ stream.pos = 0
          /\ yielded = <<>>

C15_Witness ==
    /\ pc = "write"
    /\ Len(yielded) = 2
    /\ BatchesWritten = 1

\* C16: the metadata record is written at most once per run, and only by a
\* run whose writer consumed the whole sequence and closed without error; a
\* run in which connecting, streaming or writing failed writes none.
C16_MetadataOnlyAfterSuccess ==
    /\ [][\A v \in VersionIds :
             fs'[v].meta # fs[v].meta =>
                 /\ v = version_id
                 /\ pc = "finish"
                 /\ error = NoError
                 /\ stream.state = "exhausted"
                 /\ output_fmt = "parquet" => writer.closed
                 /\ pc' = "exited"
                 /\ exit_status' = 0]_vars
    /\ []((run = 1 /\ error.kind # "") =>
             \A v \in VersionIds : ~fs[v].meta.exists)

C16_Witness ==
    /\ run = 1
    /\ pc = "exited"
    /\ exit_status = 0
    /\ output_dir.meta.exists
    /\ output_dir.snapshot

\* C17: every fatal error reaches the handler, which ends the run with a
\* non-zero status; the connection lookup, the stream query and the write are
\* not attempted again after a failure.
C17_FatalErrorsTerminateOnce ==
    /\ [](error.kind \in {"", "ValueError", "PermissionError", "StreamingError",
                          "WriteError"})
    /\ [](error.kind # "" =>
             /\ pc \in {"except", "exited"}
             /\ pc = "exited" => exit_status = 1)
    /\ [](calls <= 1)
    /\ [][(run' = run /\ error.kind # "") =>
             /\ pc' = "exited"
             /\ exit_status' = 1
             /\ error' = error
             /\ calls' = calls
             /\ yielded' = yielded
             /\ pbar' = pbar
             /\ i' = i
             /\ writer' = writer
             /\ stream'.pos = stream.pos]_vars
    /\ [][(run' = run /\ stream.state \notin {"none", "created"}) =>
             stream'.state \notin {"none", "created"}]_vars

C17_Witness ==
    /\ pc = "exited"
    /\ exit_status = 1
    /\ error.kind = "WriteError"
    /\ error.after >= 1

\* C18: a call that raises leaves the cache as it was, so a failure is never
\* cached: a call for a configured name succeeds whenever its password is
\* set, whatever failed before.
C18_FailuresNotCached ==
    /\ [](\A n \in DOMAIN engines_cache : engines_cache[n] # NoHandle)
    /\ [][calls' = calls + 1 =>
             /\ last'.kind # "handle" =>
                   /\ engines_cache' = engines_cache
                   /\ created' = created
             /\ (last'.name \in Connections
                 /\ ~Falsy(env[PasswordEnvVar(last'.name)])) =>
                   /\ last'.kind = "handle"
                   /\ last'.handle # NoHandle
                   /\ last'.name \in DOMAIN engines_cache']_vars

\* A name whose earlier call raised is now served a handle
C18_Witness ==
    /\ last.kind = "handle"
    /\ last.name \in failed
    /\ created[last.name] = 1

\* C19: the version directory exists before any connection or extraction
\* work and outlives a failure; after a failed run with explicit version V
\* the directory is there without a data file, and the next run for V ends
\* with the conflict, status 1, and extracts nothing.
C19_FailedVersionBlocksRerun ==
    /\ pc \in {"connect", "count", "stream", "pull", "write", "close", "finish",
               "except"} => output_dir.exists
    /\ calls > 0 => output_dir.exists
    /\ (pc = "exited" /\ error.kind # "") =>
          /\ output_dir.exists
          /\ ~output_file.exists
    /\ (run = 2 /\ args.version # "" /\ prev.error.kind # "") =>
          /\ output_dir.exists
          /\ ~output_file.exists
          /\ calls = 0
          /\ total_rows = -1
          /\ stream = NoStream
          /\ yielded = <<>>
          /\ pc \in {"init", "job", "paths", "exited"}
          /\ pc = "exited" => exit_status = 1

C19_Witness ==
    /\ run = 2
    /\ pc = "exited"
    /\ exit_status = 1
    /\ args.version = "v1"
    /\ prev.error.kind = "WriteError"
    /\ output_dir.exists

====
